---- MODULE Spec2Model ----
(***************************************************************************)
(* Model of the multi-provider AI completion gateway, class AIService of   *)
(* examples/python-ai-integration.py.                                      *)
(*                                                                         *)
(* Python strings whose contents the code inspects (credentials, reply     *)
(* content, exception messages) are sequences of one-character strings.    *)
(* Python's None is the string "None" for identifier-valued fields and a   *)
(* record with some = FALSE for optional inspected strings.                *)
(*                                                                         *)
(* The last part models the skills table of the extended job backend,      *)
(* enhanced_flask_job_backend.py, and the two endpoints that use it.       *)
(***************************************************************************)
EXTENDS Integers, Sequences, FiniteSets, TLC

\* ------------------------------------------------------------------ bounds
MaxLen == 3        \* longest reply content, in characters
MaxParts == 2      \* most fragments an exception message is built of
NumCallers == 2    \* callers that may hold an invocation
MaxStatusCalls == 2 \* get_status results kept for comparison
MaxJobRequests == 2 \* POST /api/jobs requests served

\* ----------------------------------------------------------- string basics
None == "None"

Whitespace == {" ", "\t", "\n", "\r"}

UpperAlpha == <<"A","B","C","D","E","F","G","H","I","J","K","L","M",
                "N","O","P","Q","R","S","T","U","V","W","X","Y","Z">>

LowerAlpha == <<"a","b","c","d","e","f","g","h","i","j","k","l","m",
                "n","o","p","q","r","s","t","u","v","w","x","y","z">>

\* the lower-case letter of each upper-case letter
LowerOf ==
    [ch \in {UpperAlpha[i] : i \in 1..26} |->
        LowerAlpha[CHOOSE i \in 1..26 : UpperAlpha[i] = ch]]

\* str.lower() on one character
LowerChar(ch) == IF ch \in DOMAIN LowerOf THEN LowerOf[ch] ELSE ch

\* str.lower()
Lower(s) == [i \in 1..Len(s) |-> LowerChar(s[i])]

\* the Python expression  sub in s
Contains(s, sub) ==
    \E i \in 0..(Len(s) - Len(sub)) : SubSeq(s, i + 1, i + Len(sub)) = sub

RECURSIVE LStrip(_)
LStrip(s) ==
    IF s = <<>> THEN s
    ELSE IF Head(s) \in Whitespace THEN LStrip(Tail(s)) ELSE s

RECURSIVE RStrip(_)
RStrip(s) ==
    IF s = <<>> THEN s
    ELSE IF s[Len(s)] \in Whitespace THEN RStrip(SubSeq(s, 1, Len(s) - 1)) ELSE s

\* str.strip()
Strip(s) == RStrip(LStrip(s))

\* all strings over an alphabet up to a length
RECURSIVE StringsUpTo(_, _)
StringsUpTo(alphabet, n) ==
    IF n = 0 THEN {<<>>}
    ELSE LET shorter == StringsUpTo(alphabet, n - 1)
         IN  shorter \cup {<<ch>> \o s : ch \in alphabet, s \in {t \in shorter : Len(t) = n - 1}}

\* an Optional[str] whose text the code inspects
NoStr == [some |-> FALSE, s |-> <<>>]

Some(s) == [some |-> TRUE, s |-> s]

\* truthiness of an Optional[str]:  if x
Truthy(x) == x.some /\ x.s # <<>>

\* ------------------------------------------------------ provider registry
\* PROVIDER_CONFIGS[p]['models']
PROVIDER_CONFIGS ==
    [openai     |-> [base_url |-> "https://api.openai.com/v1",
                     models |-> [chat |-> "gpt-3.5-turbo",
                                 chat_advanced |-> "gpt-4"]],
     openrouter |-> [base_url |-> "https://openrouter.ai/api/v1",
                     models |-> [chat |-> "microsoft/wizardlm-2-8x22b",
                                 chat_advanced |-> "anthropic/claude-3.5-sonnet",
                                 chat_fast |-> "meta-llama/llama-3.1-8b-instruct:free"]]]

\* the client objects the constructor can build, named by their endpoint
OpenAIHandle == "client@https://api.openai.com/v1"

OpenRouterHandle == "client@https://openrouter.ai/api/v1"

\* ------------------------------------------------------------ input sets
\* values of an API key environment variable: unset, empty, blank, real
KeyValues == {NoStr, Some(<<>>), Some(<<" ">>), Some(<<"s", "k">>)}

Callers == 1..NumCallers

\* the callers of the sequential specification
SeqCallers == {1}

ProviderArgs == {"auto", "openai", "openrouter", "nonexistent"}

\* model=None (the default), an empty name, and a name outside openrouter's catalog
ModelArgs == {None, "", "gpt-4"}

\* the conversation of run_examples; the gateway passes messages on unread
MessageLists ==
    {<<[role |-> "system", content |-> "You are a helpful assistant."],
       [role |-> "user", content |-> "What is the capital of France?"]>>}

\* (temperature in tenths, max_tokens): the defaults and run_examples' pair
SamplingArgs == {[temperature |-> 7, max_tokens |-> 2000],
                 [temperature |-> 3, max_tokens |-> 500]}

Requests ==
    {[messages |-> m, provider |-> p, model |-> mo,
      temperature |-> sa.temperature, max_tokens |-> sa.max_tokens] :
        m \in MessageLists, p \in ProviderArgs, mo \in ModelArgs, sa \in SamplingArgs}

\* values of datetime.now().isoformat()
Timestamps == {"t1", "t2"}

ContentChars == {" ", "a"}

Contents == {NoStr} \cup {Some(s) : s \in StringsUpTo(ContentChars, MaxLen)}

Usages == {None, "usage"}

\* fragments of the text of a provider exception
Fragments ==
    {<<"4","0","1">>, <<"4","2","9">>, <<"5","0","0">>, <<"5","0","2">>,
     <<"5","0","3">>, <<"I","n","v","a","l","i","d">>,
     <<"R","a","t","e"," ","L","i","m","i","t">>,
     <<"t","i","m","e","o","u","t">>}

RECURSIVE MessagesOfParts(_)
MessagesOfParts(n) ==
    IF n = 0 THEN {<<>>}
    ELSE {f \o m : f \in Fragments, m \in MessagesOfParts(n - 1)}

ErrorMessages == UNION {MessagesOfParts(n) : n \in 0..MaxParts}

\* classes of the exceptions a provider call raises
ExceptionTypes == {"APIStatusError", "APIConnectionError"}

\* what client.chat.completions.create does: a response object or a raise
Replies ==
    {[kind |-> "response", choices |-> <<>>, usage |-> u, message |-> <<>>] :
        u \in Usages}
    \cup
    {[kind |-> "response",
      choices |-> <<[content |-> ct, finish_reason |-> "stop"]>>,
      usage |-> u, message |-> <<>>] : ct \in Contents, u \in Usages}

Raises ==
    {[kind |-> "raise", choices |-> <<>>, usage |-> None, message |-> m] :
        m \in ErrorMessages}

Outcomes == Replies \cup Raises

\* ------------------------------------------------------------------ state
VARIABLES
    OPENAI_API_KEY,      \* os.getenv('OPENAI_API_KEY')
    OPENROUTER_API_KEY,  \* os.getenv('OPENROUTER_API_KEY')
    ctor_fails,          \* providers whose openai.OpenAI(...) construction raises
    openai_client,       \* AIService.openai_client
    openrouter_client,   \* AIService.openrouter_client
    active_provider,     \* AIService.active_provider
    pc,                  \* per caller: "idle", "waiting" (in the provider call), "done"
    op,                  \* per caller: the method it invoked
    req,                 \* per caller: the arguments of the invocation
    local,               \* per caller: provider_name and selected_model locals
    sent,                \* per caller: provider calls issued by the invocation
    outcome,             \* per caller: what the provider call did
    ret,                 \* per caller: how the invocation ended
    status_log,          \* the results of the get_status calls so far
    SKILLS_DATABASE,     \* enhanced_flask_job_backend.SKILLS_DATABASE
    jobs_served,         \* POST /api/jobs requests served so far
    jobs_ret,            \* the last POST /api/jobs response
    skills_ret           \* the last GET /api/skills response

vars == <<OPENAI_API_KEY, OPENROUTER_API_KEY, ctor_fails, openai_client,
          openrouter_client, active_provider, pc, op, req, local, sent,
          outcome, ret, status_log,
          SKILLS_DATABASE, jobs_served, jobs_ret, skills_ret>>

service == <<OPENAI_API_KEY, OPENROUTER_API_KEY, ctor_fails, openai_client,
             openrouter_client, active_provider>>

\* -------------------------------------------------------------- AIResponse
NoData == [kind |-> "None"]

NoError == [text |-> None, arg |-> <<>>]

\* AIResponse(success, data, error, provider, model, code, timestamp)
AIResponse(success, data, error, provider, model, code, timestamp) ==
    [success |-> success, data |-> data, error |-> error, provider |-> provider,
     model |-> model, code |-> code, timestamp |-> timestamp]

\* an error response that reports a provider where none was given
CreateErrorResponseDefaultProvider(error, provider, code, ts) ==
    AIResponse(FALSE, NoData, error,
               IF provider = None THEN "auto" ELSE provider, None, code, ts)

_create_error_response(error, provider, code, ts) ==
    AIResponse(FALSE, NoData, error, provider, None, code, ts)

\* a success response that also fills the code field
CreateSuccessResponseWithCode(data, provider, model, ts) ==
    AIResponse(TRUE, data, NoError, provider, model, "OK", ts)

_create_success_response(data, provider, model, ts) ==
    AIResponse(TRUE, data, NoError, provider, model, None, ts)

\* how an invocation ends: it returns a value or an exception leaves it
Returned(env) == [kind |-> "return", env |-> env]

NoEnvelope == AIResponse(FALSE, NoData, NoError, None, None, None, None)

Raised == [kind |-> "raise", env |-> NoEnvelope]

\* ---------------------------------------------------------------- startup
\* the guard written as  if KEY:  without the strip
KeyUsableNoStrip(key) == Truthy(key)

\* the guard  KEY and KEY.strip()
KeyUsable(key) == Truthy(key) /\ Strip(key.s) # <<>>

\* startup that prefers OpenAI when both clients exist
InitializeClientsPreferOpenAI(okey, rkey, fails) ==
    LET oc == IF Truthy(okey) /\ Strip(okey.s) # <<>> /\ "openai" \notin fails
              THEN OpenAIHandle ELSE None
        rc == IF Truthy(rkey) /\ Strip(rkey.s) # <<>> /\ "openrouter" \notin fails
              THEN OpenRouterHandle ELSE None
    IN  [openai_client |-> oc,
         openrouter_client |-> rc,
         active_provider |-> IF oc # None THEN "openai"
                             ELSE IF rc # None THEN "openrouter"
                             ELSE None]

\* AIService.__init__ followed by _initialize_clients
_initialize_clients(okey, rkey, fails) ==
    LET oc == IF KeyUsable(okey) /\ "openai" \notin fails
              THEN OpenAIHandle ELSE None
        rc == IF KeyUsable(rkey) /\ "openrouter" \notin fails
              THEN OpenRouterHandle ELSE None
    IN  [openai_client |-> oc,
         openrouter_client |-> rc,
         active_provider |-> IF rc # None THEN "openrouter"
                             ELSE IF oc # None THEN "openai"
                             ELSE None]

\* the state of the job backend module
job_backend == <<SKILLS_DATABASE, jobs_served, jobs_ret, skills_ret>>

\* SKILLS_DATABASE as the module defines it at import
SkillsDatabaseAtImport ==
    ("Software Engineer" :> <<"Python", "JavaScript", "React", "Node.js",
                              "SQL", "Git", "AWS", "Docker">>)
    @@ ("Data Scientist" :> <<"Python", "R", "SQL", "Machine Learning",
                               "TensorFlow", "Pandas", "Jupyter", "Statistics">>)
    @@ ("Frontend Developer" :> <<"JavaScript", "React", "Vue.js", "HTML",
                                   "CSS", "TypeScript", "Webpack", "SCSS">>)
    @@ ("Backend Developer" :> <<"Python", "Java", "Node.js", "PostgreSQL",
                                  "MongoDB", "API Design", "Microservices">>)
    @@ ("DevOps Engineer" :> <<"AWS", "Docker", "Kubernetes", "Jenkins",
                                "Terraform", "Linux", "CI/CD", "Monitoring">>)
    @@ ("Product Manager" :> <<"Agile", "Scrum", "Analytics", "Roadmapping",
                                "User Research", "A/B Testing", "SQL">>)
    @@ ("UI/UX Designer" :> <<"Figma", "Sketch", "Adobe XD", "Prototyping",
                               "User Research", "Design Systems", "Usability">>)
    @@ ("Marketing Manager" :> <<"SEO", "Google Analytics", "Social Media",
                                  "Content Marketing", "PPC", "Email Marketing">>)

\* no response of the endpoint yet
NoJobsResponse == [status |-> None, requirements |-> <<>>]

NoSkillsResponse == [status |-> None, skills |-> {}]

NoRequest == [messages |-> <<>>, provider |-> None, model |-> None,
              temperature |-> 0, max_tokens |-> 0]

NoLocal == [provider_name |-> None, selected_model |-> None]

NoOutcome == [kind |-> "none", choices |-> <<>>, usage |-> None, message |-> <<>>]

Init ==
    /\ OPENAI_API_KEY \in KeyValues
    /\ OPENROUTER_API_KEY \in KeyValues
    /\ ctor_fails \in SUBSET {"openai", "openrouter"}
    /\ LET s == _initialize_clients(OPENAI_API_KEY, OPENROUTER_API_KEY, ctor_fails)
       IN  /\ openai_client = s.openai_client
           /\ openrouter_client = s.openrouter_client
           /\ active_provider = s.active_provider
    /\ pc = [c \in Callers |-> "idle"]
    /\ op = [c \in Callers |-> None]
    /\ req = [c \in Callers |-> NoRequest]
    /\ local = [c \in Callers |-> NoLocal]
    /\ sent = [c \in Callers |-> <<>>]
    /\ outcome = [c \in Callers |-> NoOutcome]
    /\ ret = [c \in Callers |-> Raised]
    /\ status_log = <<>>
    /\ SKILLS_DATABASE = SkillsDatabaseAtImport
    /\ jobs_served = 0
    /\ jobs_ret = NoJobsResponse
    /\ skills_ret = NoSkillsResponse

\* ---------------------------------------------------------------- helpers
NoClientInfo == [client |-> None, provider_name |-> None]

\* a client lookup that falls back to the active provider
GetClientWithFallback(provider) ==
    LET target_provider == IF provider = "auto" THEN active_provider ELSE provider
    IN  IF target_provider = "openai" /\ openai_client # None
        THEN [client |-> openai_client, provider_name |-> "openai"]
        ELSE IF target_provider = "openrouter" /\ openrouter_client # None
        THEN [client |-> openrouter_client, provider_name |-> "openrouter"]
        ELSE IF active_provider = "openrouter"
        THEN [client |-> openrouter_client, provider_name |-> "openrouter"]
        ELSE IF active_provider = "openai"
        THEN [client |-> openai_client, provider_name |-> "openai"]
        ELSE NoClientInfo

\* a client lookup that does not test whether the handle exists
GetClientNoHandleCheck(provider) ==
    LET target_provider == IF provider = "auto" THEN active_provider ELSE provider
    IN  IF target_provider = "openai"
        THEN [client |-> openai_client, provider_name |-> "openai"]
        ELSE IF target_provider = "openrouter"
        THEN [client |-> openrouter_client, provider_name |-> "openrouter"]
        ELSE NoClientInfo

_get_client(provider) ==
    LET target_provider == IF provider = "auto" THEN active_provider ELSE provider
    IN  IF target_provider = "openai" /\ openai_client # None
        THEN [client |-> openai_client, provider_name |-> "openai"]
        ELSE IF target_provider = "openrouter" /\ openrouter_client # None
        THEN [client |-> openrouter_client, provider_name |-> "openrouter"]
        ELSE NoClientInfo

\* dict.get(key, default)
DictGet(d, key, default) == IF key \in DOMAIN d THEN d[key] ELSE default

_get_model(provider, model_type) ==
    LET config == DictGet(PROVIDER_CONFIGS, provider, <<>>)
        models == DictGet(config, "models", <<>>)
    IN  DictGet(models, model_type, DictGet(models, "chat", "gpt-3.5-turbo"))

\* model selection that keeps a requested model only if the provider's
\* catalog lists it
SelectedModelFromCatalog(model, provider_name) ==
    IF /\ model # None
       /\ model # ""
       /\ \E k \in DOMAIN PROVIDER_CONFIGS[provider_name].models :
              PROVIDER_CONFIGS[provider_name].models[k] = model
    THEN model
    ELSE _get_model(provider_name, "chat")

\* the expression  model or self._get_model(provider_name, 'chat')
SelectedModel(model, provider_name) ==
    IF model # None /\ model # "" THEN model ELSE _get_model(provider_name, "chat")

\* one call of client.chat.completions.create(...)
CreateCall(client, model, messages, temperature, max_tokens) ==
    [client |-> client, model |-> model, messages |-> messages,
     temperature |-> temperature, max_tokens |-> max_tokens]

NoProviderText == "No AI provider available. Please configure API keys in .env file."

\* the early return of both completion methods with an error code attached
NoProviderResponseWithCode(ts) ==
    _create_error_response([text |-> NoProviderText, arg |-> <<>>],
                           None, "PROVIDER_UNAVAILABLE", ts)

\* the early return of chat_completion and chat_completion_sync
NoProviderResponse(ts) ==
    _create_error_response([text |-> NoProviderText, arg |-> <<>>], None, None, ts)

\* ------------------------------------------------- after the provider call
\* the clause  except Exception  that catches only API status errors
ExceptAPIStatusErrorOnly(exc_type) == exc_type = "APIStatusError"

\* the clause  except Exception as error:  every class the call raises is one
ExceptException(exc_type) == exc_type \in ExceptionTypes

\* response.choices[0].message.content if response.choices else None
ReplyContent(response) ==
    IF response.choices # <<>> THEN response.choices[1].content ELSE NoStr

\* the test  if content  written as  if content is not None
HasContentNotNone(content) == content.some

\* the test  if content:
HasContent(content) == Truthy(content)

\* the data dict of a success with the content only left-stripped
SuccessDataLeftStripped(response, content) ==
    [kind |-> "dict",
     content |-> LStrip(content.s),
     usage |-> IF response.usage # None THEN "usage.model_dump()" ELSE None,
     finish_reason |-> IF response.choices # <<>>
                       THEN response.choices[1].finish_reason ELSE None]

\* the data dict of a success envelope
SuccessData(response, content) ==
    [kind |-> "dict",
     content |-> Strip(content.s),
     usage |-> IF response.usage # None THEN "usage.model_dump()" ELSE None,
     finish_reason |-> IF response.choices # <<>>
                       THEN response.choices[1].finish_reason ELSE None]

Fixed(text) == [text |-> text, arg |-> <<>>]

\* the except block with the outage markers tested first
ExceptBlockOutageFirst(provider_name, error_str, ts) ==
    IF \E code \in {<<"5","0","0">>, <<"5","0","2">>, <<"5","0","3">>} :
           Contains(error_str, code)
    THEN _create_error_response(
             Fixed("AI service temporarily unavailable. Please try again."),
             provider_name, "SERVICE_UNAVAILABLE", ts)
    ELSE IF \/ Contains(error_str, <<"4","0","1">>)
            \/ Contains(Lower(error_str), <<"i","n","v","a","l","i","d">>)
    THEN _create_error_response(
             Fixed("Invalid API key. Please check your credentials."),
             provider_name, "INVALID_API_KEY", ts)
    ELSE IF \/ Contains(error_str, <<"4","2","9">>)
            \/ Contains(Lower(error_str), <<"r","a","t","e"," ","l","i","m","i","t">>)
    THEN _create_error_response(
             Fixed("Rate limit exceeded. Please try again later."),
             provider_name, "RATE_LIMIT", ts)
    ELSE _create_error_response([text |-> "{error}", arg |-> error_str],
                                provider_name, "UNKNOWN_ERROR", ts)

\* the except block that recognises throttling by its text only
ExceptBlockNo429(provider_name, error_str, ts) ==
    IF \/ Contains(error_str, <<"4","0","1">>)
       \/ Contains(Lower(error_str), <<"i","n","v","a","l","i","d">>)
    THEN _create_error_response(
             Fixed("Invalid API key. Please check your credentials."),
             provider_name, "INVALID_API_KEY", ts)
    ELSE IF Contains(Lower(error_str), <<"r","a","t","e"," ","l","i","m","i","t">>)
    THEN _create_error_response(
             Fixed("Rate limit exceeded. Please try again later."),
             provider_name, "RATE_LIMIT", ts)
    ELSE IF \E code \in {<<"5","0","0">>, <<"5","0","2">>, <<"5","0","3">>} :
                Contains(error_str, code)
    THEN _create_error_response(
             Fixed("AI service temporarily unavailable. Please try again."),
             provider_name, "SERVICE_UNAVAILABLE", ts)
    ELSE _create_error_response([text |-> "{error}", arg |-> error_str],
                                provider_name, "UNKNOWN_ERROR", ts)

\* the except block of chat_completion; error_str is str(error)
ChatCompletionExcept(provider_name, error_str, ts) ==
    IF \/ Contains(error_str, <<"4","0","1">>)
       \/ Contains(Lower(error_str), <<"i","n","v","a","l","i","d">>)
    THEN _create_error_response(
             Fixed("Invalid API key. Please check your credentials."),
             provider_name, "INVALID_API_KEY", ts)
    ELSE IF \/ Contains(error_str, <<"4","2","9">>)
            \/ Contains(Lower(error_str), <<"r","a","t","e"," ","l","i","m","i","t">>)
    THEN _create_error_response(
             Fixed("Rate limit exceeded. Please try again later."),
             provider_name, "RATE_LIMIT", ts)
    ELSE IF \E code \in {<<"5","0","0">>, <<"5","0","2">>, <<"5","0","3">>} :
                Contains(error_str, code)
    THEN _create_error_response(
             Fixed("AI service temporarily unavailable. Please try again."),
             provider_name, "SERVICE_UNAVAILABLE", ts)
    ELSE _create_error_response([text |-> "{error}", arg |-> error_str],
                                provider_name, "UNKNOWN_ERROR", ts)

\* the except block of chat_completion_sync
ChatCompletionSyncExcept(provider_name, error_str, ts) ==
    _create_error_response([text |-> "{error}", arg |-> error_str],
                           provider_name, "REQUEST_FAILED", ts)

\* chat_completion from the provider call's outcome to the end of the method
ChatCompletionAfterCall(provider_name, selected_model, out, exc_type, ts) ==
    IF out.kind = "raise"
    THEN IF ExceptException(exc_type)
         THEN Returned(ChatCompletionExcept(provider_name, out.message, ts))
         ELSE Raised
    ELSE LET content == ReplyContent(out)
         IN  IF HasContent(content)
             THEN Returned(_create_success_response(SuccessData(out, content),
                                                    provider_name, selected_model, ts))
             ELSE Returned(_create_error_response(
                               Fixed("No content returned from AI service"),
                               provider_name, None, ts))

\* chat_completion_sync from the provider call's outcome to the end
ChatCompletionSyncAfterCall(provider_name, selected_model, out, exc_type, ts) ==
    IF out.kind = "raise"
    THEN IF ExceptException(exc_type)
         THEN Returned(ChatCompletionSyncExcept(provider_name, out.message, ts))
         ELSE Raised
    ELSE LET content == ReplyContent(out)
         IN  IF HasContent(content)
             THEN Returned(_create_success_response(SuccessData(out, content),
                                                    provider_name, selected_model, ts))
             ELSE Returned(_create_error_response(
                               Fixed("No content returned from AI service"),
                               provider_name, None, ts))

\* validate_provider from the provider call's outcome to the end
ValidateProviderAfterCall(provider, provider_name, model, out, exc_type, ts) ==
    IF out.kind = "raise"
    THEN IF ExceptException(exc_type)
         THEN Returned(_create_error_response(
                           [text |-> "Provider validation failed: {error}",
                            arg |-> out.message],
                           provider, "VALIDATION_FAILED", ts))
         ELSE Raised
    ELSE IF out.choices # <<>> /\ Truthy(out.choices[1].content)
         THEN Returned(_create_success_response([kind |-> "bool", value |-> TRUE],
                                                provider_name, model, ts))
         ELSE Returned(_create_error_response(Fixed("Provider validation failed"),
                                              provider_name, None, ts))

\* ---------------------------------------------------------------- actions
\* an argument the call does not pass
NotPassed == -1

\* the start of a completion method, up to the blocking provider call
StartCompletion(c, method, r, ts) ==
    LET client_info == _get_client(r.provider)
    IN  /\ op' = [op EXCEPT ![c] = method]
        /\ req' = [req EXCEPT ![c] = r]
        /\ outcome' = [outcome EXCEPT ![c] = NoOutcome]
        /\ IF client_info = NoClientInfo
           THEN /\ pc' = [pc EXCEPT ![c] = "done"]
                /\ local' = [local EXCEPT ![c] = NoLocal]
                /\ sent' = [sent EXCEPT ![c] = <<>>]
                /\ ret' = [ret EXCEPT ![c] = Returned(NoProviderResponse(ts))]
           ELSE LET provider_name == client_info.provider_name
                    selected_model == SelectedModel(r.model, provider_name)
                IN  /\ pc' = [pc EXCEPT ![c] = "waiting"]
                    /\ local' = [local EXCEPT ![c] =
                                    [provider_name |-> provider_name,
                                     selected_model |-> selected_model]]
                    /\ sent' = [sent EXCEPT ![c] =
                                   <<CreateCall(client_info.client, selected_model,
                                                r.messages, r.temperature,
                                                r.max_tokens)>>]
                    /\ ret' = [ret EXCEPT ![c] = Raised]
        /\ UNCHANGED <<service, status_log, job_backend>>

\* await ai_service.chat_completion(messages, provider, model, ...)
ChatCompletion(c, requests) ==
    /\ pc[c] = "idle"
    /\ \E r \in requests, ts \in Timestamps :
           StartCompletion(c, "chat_completion", r, ts)

\* chat_completion that repeats the provider call once after a failure
ChatCompletionReplyWithRetry(c, outcomes) ==
    /\ pc[c] = "waiting"
    /\ op[c] = "chat_completion"
    /\ \E out \in outcomes, exc_type \in ExceptionTypes, ts \in Timestamps :
           /\ outcome' = [outcome EXCEPT ![c] = out]
           /\ ret' = [ret EXCEPT ![c] =
                         ChatCompletionAfterCall(local[c].provider_name,
                                                 local[c].selected_model,
                                                 out, exc_type, ts)]
           /\ sent' = [sent EXCEPT ![c] =
                           IF out.kind = "raise" THEN sent[c] \o sent[c] ELSE sent[c]]
    /\ pc' = [pc EXCEPT ![c] = "done"]
    /\ UNCHANGED <<service, op, req, local, status_log, job_backend>>

\* the provider call of chat_completion ends and the method finishes
ChatCompletionReply(c, outcomes) ==
    /\ pc[c] = "waiting"
    /\ op[c] = "chat_completion"
    /\ \E out \in outcomes, exc_type \in ExceptionTypes, ts \in Timestamps :
           /\ outcome' = [outcome EXCEPT ![c] = out]
           /\ ret' = [ret EXCEPT ![c] =
                         ChatCompletionAfterCall(local[c].provider_name,
                                                 local[c].selected_model,
                                                 out, exc_type, ts)]
    /\ pc' = [pc EXCEPT ![c] = "done"]
    /\ UNCHANGED <<service, op, req, local, sent, status_log, job_backend>>

\* ai_service.chat_completion_sync(messages, provider, model, ...)
ChatCompletionSync(c, requests) ==
    /\ pc[c] = "idle"
    /\ \E r \in requests, ts \in Timestamps :
           StartCompletion(c, "chat_completion_sync", r, ts)

\* chat_completion_sync that drops the client of a provider that failed
SyncReplyDroppingFailedClient(c, outcomes) ==
    /\ pc[c] = "waiting"
    /\ op[c] = "chat_completion_sync"
    /\ \E out \in outcomes, exc_type \in ExceptionTypes, ts \in Timestamps :
           /\ outcome' = [outcome EXCEPT ![c] = out]
           /\ ret' = [ret EXCEPT ![c] =
                         ChatCompletionSyncAfterCall(local[c].provider_name,
                                                     local[c].selected_model,
                                                     out, exc_type, ts)]
           /\ openai_client' =
                  IF out.kind = "raise" /\ local[c].provider_name = "openai"
                  THEN None ELSE openai_client
           /\ openrouter_client' =
                  IF out.kind = "raise" /\ local[c].provider_name = "openrouter"
                  THEN None ELSE openrouter_client
    /\ pc' = [pc EXCEPT ![c] = "done"]
    /\ UNCHANGED <<OPENAI_API_KEY, OPENROUTER_API_KEY, ctor_fails, active_provider,
                   op, req, local, sent, status_log, job_backend>>

\* chat_completion_sync whose provider_name and selected_model live in a
\* field of the service that the latest caller overwrites
SyncReplySharedLocals(c, outcomes) ==
    /\ pc[c] = "waiting"
    /\ op[c] = "chat_completion_sync"
    /\ \E out \in outcomes, exc_type \in ExceptionTypes, ts \in Timestamps :
           LET others == {d \in Callers : d # c /\ pc[d] = "waiting"}
               shared == IF others = {} THEN local[c]
                         ELSE local[CHOOSE d \in others : TRUE]
           IN  /\ outcome' = [outcome EXCEPT ![c] = out]
               /\ ret' = [ret EXCEPT ![c] =
                             ChatCompletionSyncAfterCall(shared.provider_name,
                                                         shared.selected_model,
                                                         out, exc_type, ts)]
    /\ pc' = [pc EXCEPT ![c] = "done"]
    /\ UNCHANGED <<service, op, req, local, sent, status_log, job_backend>>

\* the provider call of chat_completion_sync ends and the method finishes
ChatCompletionSyncReply(c, outcomes) ==
    /\ pc[c] = "waiting"
    /\ op[c] = "chat_completion_sync"
    /\ \E out \in outcomes, exc_type \in ExceptionTypes, ts \in Timestamps :
           /\ outcome' = [outcome EXCEPT ![c] = out]
           /\ ret' = [ret EXCEPT ![c] =
                         ChatCompletionSyncAfterCall(local[c].provider_name,
                                                     local[c].selected_model,
                                                     out, exc_type, ts)]
    /\ pc' = [pc EXCEPT ![c] = "done"]
    /\ UNCHANGED <<service, op, req, local, sent, status_log, job_backend>>

\* ai_service.validate_provider(provider)
ValidateProvider(c, providers) ==
    /\ pc[c] = "idle"
    /\ \E provider \in providers, ts \in Timestamps :
           LET client_info == _get_client(provider)
           IN  /\ op' = [op EXCEPT ![c] = "validate_provider"]
               /\ req' = [req EXCEPT ![c] = [NoRequest EXCEPT !.provider = provider]]
               /\ outcome' = [outcome EXCEPT ![c] = NoOutcome]
               /\ IF client_info = NoClientInfo
                  THEN /\ pc' = [pc EXCEPT ![c] = "done"]
                       /\ local' = [local EXCEPT ![c] = NoLocal]
                       /\ sent' = [sent EXCEPT ![c] = <<>>]
                       /\ ret' = [ret EXCEPT ![c] =
                              Returned(_create_error_response(
                                  [text |-> "Provider {provider} not available or not configured",
                                   arg |-> <<provider>>],
                                  None, None, ts))]
                  ELSE LET provider_name == client_info.provider_name
                           model == _get_model(provider_name, "chat")
                       IN  /\ pc' = [pc EXCEPT ![c] = "waiting"]
                           /\ local' = [local EXCEPT ![c] =
                                           [provider_name |-> provider_name,
                                            selected_model |-> model]]
                           /\ sent' = [sent EXCEPT ![c] =
                                          <<CreateCall(client_info.client, model,
                                                       <<[role |-> "user",
                                                          content |-> "Hello"]>>,
                                                       NotPassed, 5)>>]
                           /\ ret' = [ret EXCEPT ![c] = Raised]
    /\ UNCHANGED <<service, status_log, job_backend>>

\* the provider call of validate_provider ends and the method finishes
ValidateProviderReply(c, outcomes) ==
    /\ pc[c] = "waiting"
    /\ op[c] = "validate_provider"
    /\ \E out \in outcomes, exc_type \in ExceptionTypes, ts \in Timestamps :
           /\ outcome' = [outcome EXCEPT ![c] = out]
           /\ ret' = [ret EXCEPT ![c] =
                         ValidateProviderAfterCall(req[c].provider,
                                                   local[c].provider_name,
                                                   local[c].selected_model,
                                                   out, exc_type, ts)]
    /\ pc' = [pc EXCEPT ![c] = "done"]
    /\ UNCHANGED <<service, op, req, local, sent, status_log, job_backend>>

\* the caller takes the method's result; its frame is gone
Return(c) ==
    /\ pc[c] = "done"
    /\ pc' = [pc EXCEPT ![c] = "idle"]
    /\ op' = [op EXCEPT ![c] = None]
    /\ req' = [req EXCEPT ![c] = NoRequest]
    /\ local' = [local EXCEPT ![c] = NoLocal]
    /\ sent' = [sent EXCEPT ![c] = <<>>]
    /\ outcome' = [outcome EXCEPT ![c] = NoOutcome]
    /\ ret' = [ret EXCEPT ![c] = Raised]
    /\ UNCHANGED <<service, status_log, job_backend>>

Next ==
    \E c \in SeqCallers :
        \/ ChatCompletion(c, Requests)
        \/ ChatCompletionReply(c, Outcomes)
        \/ ChatCompletionSync(c, Requests)
        \/ ChatCompletionSyncReply(c, Outcomes)
        \/ ValidateProvider(c, ProviderArgs)
        \/ ValidateProviderReply(c, Outcomes)
        \/ Return(c)

Spec == Init /\ [][Next]_vars

\* ------------------------------------------- get_status and concurrent use
\* AIService.get_status
get_status ==
    [openai_available |-> openai_client # None,
     openrouter_available |-> openrouter_client # None,
     active_provider |-> active_provider,
     available_providers |->
         (IF openai_client # None THEN <<"openai">> ELSE <<>>)
         \o (IF openrouter_client # None THEN <<"openrouter">> ELSE <<>>)]

\* ai_service.get_status(): it does not block, any thread may call it
GetStatus ==
    /\ Len(status_log) < MaxStatusCalls
    /\ status_log' = Append(status_log, get_status)
    /\ UNCHANGED <<service, pc, op, req, local, sent, outcome, ret,
                   job_backend>>

\* inputs of the specifications below: requests that differ in provider,
\* model and temperature
SampleRequests ==
    {r \in Requests :
        \/ (r.provider = "openai" /\ r.model = "gpt-4" /\ r.temperature = 3)
        \/ (r.provider = "openrouter" /\ r.model = None /\ r.temperature = 7)
        \/ (r.provider = "auto" /\ r.model = None /\ r.temperature = 3)}

SampleProviders == {"auto", "openai"}

\* a reply with content, an empty reply and a failure
SampleOutcomes ==
    {o \in Outcomes :
        \/ /\ o.kind = "response"
           /\ o.usage = "usage"
           /\ o.choices # <<>>
           /\ o.choices[1].content = Some(<<" ", "a">>)
        \/ (o.kind = "response" /\ o.usage = None /\ o.choices = <<>>)
        \/ (o.kind = "raise" /\ o.message = <<"4","0","1">>)}

\* one thread uses every operation of the service, get_status included
StatusNext ==
    \/ GetStatus
    \/ \E c \in SeqCallers :
           \/ ChatCompletion(c, SampleRequests)
           \/ ChatCompletionReply(c, SampleOutcomes)
           \/ ChatCompletionSync(c, SampleRequests)
           \/ ChatCompletionSyncReply(c, SampleOutcomes)
           \/ ValidateProvider(c, SampleProviders)
           \/ ValidateProviderReply(c, SampleOutcomes)
           \/ Return(c)

StatusSpec == Init /\ [][StatusNext]_vars

\* the Flask server starts with each credential either unset or real
ConcInit ==
    /\ Init
    /\ OPENAI_API_KEY \in {NoStr, Some(<<"s", "k">>)}
    /\ OPENROUTER_API_KEY \in {NoStr, Some(<<"s", "k">>)}

\* the Flask server: completion requests of several threads interleave at
\* the provider call
ConcNext ==
    \E c \in Callers :
        \/ ChatCompletion(c, SampleRequests)
        \/ ChatCompletionReply(c, SampleOutcomes)
        \/ ChatCompletionSync(c, SampleRequests)
        \/ ChatCompletionSyncReply(c, SampleOutcomes)
        \/ Return(c)

ConcSpec == ConcInit /\ [][ConcNext]_vars

\* ------------------------------------------ the extended job backend
\* the 'query' values of the requests: two titles of the table and one
\* that is not in it
QueryArgs == {"Software Engineer", "Backend Developer", "Astronaut"}

\* the 'skills' values of the requests
SkillArgs == {<<>>, <<"Rust">>, <<"Go", "Rust">>}

\* request.get_json(): bodies with and without each key, and no JSON body
NoBody == [json |-> FALSE]

JobRequestBodies ==
    {[query |-> q, skills |-> sk] : q \in QueryArgs, sk \in SkillArgs}
    \cup {[skills |-> sk] : sk \in SkillArgs}
    \cup {[query |-> q] : q \in QueryArgs}
    \cup {NoBody}

Min(a, b) == IF a <= b THEN a ELSE b

\* random.sample(population, k): k elements at distinct positions, in any
\* order
RandomSample(population, k) ==
    {[i \in 1..k |-> population[pos[i]]] :
        pos \in {f \in [1..k -> DOMAIN population] :
                    \A i \in 1..k : \A j \in 1..k : f[i] = f[j] => i = j}}

\* generate_comprehensive_jobs up to the job cards: job_skills is the list
\* object held by the table when query is one of its keys, a new list
\* otherwise, and list.extend changes that object in place
generate_comprehensive_jobs(db, query, skills, additional_skills) ==
    LET job_skills == DictGet(db, query,
                              <<"Communication", "Problem Solving", "Teamwork">>)
        extended == IF skills # <<>>
                    THEN job_skills \o additional_skills
                    ELSE job_skills
    IN  [SKILLS_DATABASE |-> IF query \in DOMAIN db
                             THEN [db EXCEPT ![query] = extended]
                             ELSE db,
         requirements |-> SubSeq(extended, 1, Min(6, Len(extended)))]

\* POST /api/jobs; of the job cards the response keeps the requirements,
\* which every card shares, the other fields are drawn at random per card
GetJobs ==
    /\ jobs_served < MaxJobRequests
    /\ jobs_served' = jobs_served + 1
    /\ \E data \in JobRequestBodies :
           IF data = NoBody
           THEN /\ jobs_ret' = [status |-> "error", requirements |-> <<>>]
                /\ UNCHANGED SKILLS_DATABASE
           ELSE LET query == DictGet(data, "query", "Software Engineer")
                    skills == DictGet(data, "skills", <<>>)
                IN  \E additional_skills \in
                           RandomSample(skills, Min(3, Len(skills))) :
                        LET r == generate_comprehensive_jobs(
                                     SKILLS_DATABASE, query, skills,
                                     additional_skills)
                        IN  /\ SKILLS_DATABASE' = r.SKILLS_DATABASE
                            /\ jobs_ret' = [status |-> "success",
                                            requirements |-> r.requirements]
    /\ UNCHANGED <<service, pc, op, req, local, sent, outcome, ret,
                   status_log, skills_ret>>

\* the skills of every title; the endpoint lists this set in sorted order
get_skills(db) ==
    UNION {{db[title][i] : i \in DOMAIN db[title]} : title \in DOMAIN db}

\* GET /api/skills
GetSkills ==
    /\ skills_ret' = [status |-> "success", skills |-> get_skills(SKILLS_DATABASE)]
    /\ UNCHANGED <<service, pc, op, req, local, sent, outcome, ret,
                   status_log, SKILLS_DATABASE, jobs_served, jobs_ret>>

\* the job backend is a server of its own and holds no AI credentials
JobsInit ==
    /\ Init
    /\ OPENAI_API_KEY = NoStr
    /\ OPENROUTER_API_KEY = NoStr
    /\ ctor_fails = {}

JobsNext == GetJobs \/ GetSkills

JobsSpec == JobsInit /\ [][JobsNext]_vars

TypeOK ==
    /\ pc \in [Callers -> {"idle", "waiting", "done"}]
    /\ \A c \in Callers : Len(sent[c]) <= 1

\* ------------------------------------------------- vocabulary of the claims
CompletionOps == {"chat_completion", "chat_completion_sync"}

Env(c) == ret[c].env

WithoutTimestamp(env) == [env EXCEPT !.timestamp = None]

\* the handle the service holds for an identifier, if any
HandleOf(provider) ==
    IF provider = "openai" THEN openai_client
    ELSE IF provider = "openrouter" THEN openrouter_client
    ELSE None

\* caller c asked a completion of an explicit provider that has no handle
ExplicitUnavailable(c) ==
    /\ op[c] \in CompletionOps
    /\ req[c].provider # "auto"
    /\ HandleOf(req[c].provider) = None

\* the provider and model a request is to be served with
ExpectedProvider(r) == IF r.provider = "auto" THEN active_provider ELSE r.provider

ExpectedModel(r) ==
    IF r.model # None /\ r.model # "" THEN r.model
    ELSE IF ExpectedProvider(r) = "openai" THEN "gpt-3.5-turbo"
    ELSE "microsoft/wizardlm-2-8x22b"

\* r is s with its leading and trailing whitespace removed
IsTrimOf(r, s) ==
    /\ \E i \in 0..Len(s) : \E j \in i..Len(s) :
           /\ r = SubSeq(s, i + 1, j)
           /\ \A k \in 1..i : s[k] \in Whitespace
           /\ \A k \in (j + 1)..Len(s) : s[k] \in Whitespace
    /\ r # <<>> => (r[1] \notin Whitespace /\ r[Len(r)] \notin Whitespace)

\* caller c's provider call answered without raising
Answered(c) ==
    /\ pc[c] = "done"
    /\ op[c] \in CompletionOps
    /\ outcome[c].kind = "response"

\* caller c's provider call raised
Failed(c) ==
    /\ pc[c] = "done"
    /\ op[c] \in CompletionOps
    /\ outcome[c].kind = "raise"

\* word occurs in s, letter case ignored (word is lower case)
Mentions(s, word) ==
    \E i \in 1..(Len(s) - Len(word) + 1) :
        \A k \in 1..Len(word) : LowerChar(s[i + k - 1]) = word[k]

\* the three rows of the classification table
AuthMarker(m) ==
    Contains(m, <<"4","0","1">>) \/ Mentions(m, <<"i","n","v","a","l","i","d">>)

ThrottleMarker(m) ==
    \/ Contains(m, <<"4","2","9">>)
    \/ Mentions(m, <<"r","a","t","e"," ","l","i","m","i","t">>)

OutageMarker(m) ==
    \/ Contains(m, <<"5","0","0">>)
    \/ Contains(m, <<"5","0","2">>)
    \/ Contains(m, <<"5","0","3">>)

\* ------------------------------------------------------------------ claims
\* C1: a completion request (either path) naming an explicit provider that
\* has no handle is never in a provider call: it ends with a failure
\* envelope, has issued no call on any client, and is not served by another
\* provider.
C1_ExplicitUnavailableFailsWithoutCall ==
    \A c \in Callers :
        (pc[c] # "idle" /\ ExplicitUnavailable(c)) =>
            /\ pc[c] = "done"
            /\ ret[c].kind = "return"
            /\ Env(c).success = FALSE
            /\ Env(c).data = NoData
            /\ Env(c).provider = None
            /\ sent[c] = <<>>

C1_Witness ==
    \E c \in Callers :
        /\ pc[c] = "done"
        /\ op[c] = "chat_completion_sync"
        /\ req[c].provider = "openai"
        /\ openai_client = None
        /\ openrouter_client # None
        /\ Env(c).success = FALSE

\* C2 as stated: the failure envelope of a completion request for an
\* explicit provider without a handle carries the code PROVIDER_UNAVAILABLE.
C2_CodeIsProviderUnavailable ==
    \A c \in Callers :
        (pc[c] = "done" /\ ExplicitUnavailable(c)) =>
            Env(c).code = "PROVIDER_UNAVAILABLE"

\* C2 amended: that failure envelope has no code at all; the condition is
\* told only by the error text "No AI provider available. ..." and a
\* provider of None.
C2_CodeIsUnset ==
    \A c \in Callers :
        (pc[c] = "done" /\ ExplicitUnavailable(c)) =>
            /\ Env(c).code = None
            /\ Env(c).error.text =
                   "No AI provider available. Please configure API keys in .env file."
            /\ Env(c).provider = None

C2_Witness ==
    \E c \in Callers :
        /\ pc[c] = "done"
        /\ op[c] = "chat_completion"
        /\ req[c].provider = "nonexistent"
        /\ Env(c).code = None
        /\ Env(c).success = FALSE

\* C3: with no handle at all, every provider='auto' completion, whatever its
\* other arguments, ends with one and the same failure envelope up to the
\* timestamp, and issues no provider call.
C3_NoProviderSameFailure ==
    \A c \in Callers :
        (/\ pc[c] # "idle"
         /\ op[c] \in CompletionOps
         /\ req[c].provider = "auto"
         /\ openai_client = None
         /\ openrouter_client = None) =>
            /\ pc[c] = "done"
            /\ ret[c].kind = "return"
            /\ sent[c] = <<>>
            /\ WithoutTimestamp(Env(c)) =
                   [success |-> FALSE,
                    data |-> NoData,
                    error |-> [text |-> "No AI provider available. Please configure API keys in .env file.",
                               arg |-> <<>>],
                    provider |-> None,
                    model |-> None,
                    code |-> None,
                    timestamp |-> None]

C3_Witness ==
    \E c \in Callers :
        /\ pc[c] = "done"
        /\ op[c] \in CompletionOps
        /\ req[c].provider = "auto"
        /\ req[c].model = "gpt-4"
        /\ req[c].temperature = 3
        /\ openai_client = None
        /\ openrouter_client = None
        /\ Env(c).timestamp = "t2"

\* C4: a reply with non-empty content gives a success envelope whose content
\* is the reply's content without its leading and trailing whitespace, whose
\* provider is the resolved provider and whose model is the resolved model.
C4_SuccessContentTrimmed ==
    \A c \in Callers :
        (/\ Answered(c)
         /\ outcome[c].choices # <<>>
         /\ outcome[c].choices[1].content.some
         /\ outcome[c].choices[1].content.s # <<>>) =>
            /\ ret[c].kind = "return"
            /\ Env(c).success = TRUE
            /\ Env(c).data.kind = "dict"
            /\ IsTrimOf(Env(c).data.content, outcome[c].choices[1].content.s)
            /\ Env(c).provider = ExpectedProvider(req[c])
            /\ Env(c).model = ExpectedModel(req[c])

C4_Witness ==
    \E c \in Callers :
        /\ Answered(c)
        /\ outcome[c].choices # <<>>
        /\ outcome[c].choices[1].content = Some(<<" ", "a", " ">>)
        /\ Env(c).success = TRUE
        /\ Env(c).data.content = <<"a">>
        /\ req[c].provider = "auto"
        /\ req[c].model = None

\* C5: a reply that did not raise but has no choices, content None or
\* content '' gives a failure envelope with the error "No content returned
\* from AI service", no code, and the resolved provider.
C5_EmptyReplyFails ==
    \A c \in Callers :
        (/\ Answered(c)
         /\ \/ outcome[c].choices = <<>>
            \/ ~outcome[c].choices[1].content.some
            \/ outcome[c].choices[1].content.s = <<>>) =>
            /\ ret[c].kind = "return"
            /\ Env(c).success = FALSE
            /\ Env(c).data = NoData
            /\ Env(c).error = [text |-> "No content returned from AI service",
                               arg |-> <<>>]
            /\ Env(c).code = None
            /\ Env(c).provider = ExpectedProvider(req[c])

C5_Witness ==
    \E c \in Callers :
        /\ Answered(c)
        /\ outcome[c].choices # <<>>
        /\ outcome[c].choices[1].content = Some(<<>>)
        /\ Env(c).success = FALSE
        /\ Env(c).provider = "openrouter"

\* C6: where chat_completion classifies a provider failure, the rows of the
\* table apply in order and the first matching row decides: the
\* authentication row, else the throttling row, else the outage row; a
\* message with both "401" and "503" is INVALID_API_KEY.  The code is fixed
\* by the message, whichever provider failed.
C6_ClassificationPriority ==
    \A c \in Callers :
        (Failed(c) /\ op[c] = "chat_completion") =>
            LET m == outcome[c].message
                code == Env(c).code
            IN  /\ ret[c].kind = "return"
                /\ AuthMarker(m) => code = "INVALID_API_KEY"
                /\ (~AuthMarker(m) /\ ThrottleMarker(m)) => code = "RATE_LIMIT"
                /\ (~AuthMarker(m) /\ ~ThrottleMarker(m) /\ OutageMarker(m)) =>
                       code = "SERVICE_UNAVAILABLE"
                /\ (Contains(m, <<"4","0","1">>) /\ Contains(m, <<"5","0","3">>)) =>
                       code = "INVALID_API_KEY"

C6_Witness ==
    \E c \in Callers :
        /\ Failed(c)
        /\ op[c] = "chat_completion"
        /\ outcome[c].message = <<"5","0","3","4","0","1">>
        /\ Env(c).code = "INVALID_API_KEY"
        /\ Env(c).provider = "openai"

\* C7 as stated: every classified failure message that contains "429" gets
\* the code RATE_LIMIT, whatever other text it carries.
C7_Any429IsRateLimit ==
    \A c \in Callers :
        (/\ Failed(c)
         /\ op[c] = "chat_completion"
         /\ Contains(outcome[c].message, <<"4","2","9">>)) =>
            Env(c).code = "RATE_LIMIT"

\* C7 amended: a classified failure message that contains "429" gets the
\* code RATE_LIMIT provided it contains neither "401" nor, in any letter
\* case, "invalid"; any other accompanying text leaves the code unchanged.
C7_429WithoutAuthMarkerIsRateLimit ==
    \A c \in Callers :
        (/\ Failed(c)
         /\ op[c] = "chat_completion"
         /\ Contains(outcome[c].message, <<"4","2","9">>)
         /\ ~AuthMarker(outcome[c].message)) =>
            /\ ret[c].kind = "return"
            /\ Env(c).code = "RATE_LIMIT"

C7_Witness ==
    \E c \in Callers :
        /\ Failed(c)
        /\ op[c] = "chat_completion"
        /\ outcome[c].message = <<"t","i","m","e","o","u","t","4","2","9">>
        /\ Env(c).code = "RATE_LIMIT"

\* C8: whatever the request and the provider's outcome, the envelope one
\* completion method returned equals, timestamp apart, the envelope the
\* other method returns for the same resolved provider, model and outcome.
C8_SyncEqualsAsync ==
    \A c \in Callers :
        (/\ pc[c] = "done"
         /\ op[c] \in CompletionOps
         /\ outcome[c].kind # "none"
         /\ ret[c].kind = "return") =>
            \A exc_type \in ExceptionTypes :
                LET other ==
                        IF op[c] = "chat_completion"
                        THEN ChatCompletionSyncAfterCall(
                                 local[c].provider_name, local[c].selected_model,
                                 outcome[c], exc_type, Env(c).timestamp)
                        ELSE ChatCompletionAfterCall(
                                 local[c].provider_name, local[c].selected_model,
                                 outcome[c], exc_type, Env(c).timestamp)
                IN  /\ other.kind = "return"
                    /\ WithoutTimestamp(other.env) = WithoutTimestamp(Env(c))

\* C9: on either path a provider failure has the path's unclassified code
\* (UNKNOWN_ERROR asynchronous, REQUEST_FAILED synchronous) exactly when its
\* message has no marker of the table, and otherwise has the code of the
\* first matching row.
C9_UnclassifiedIffNoMarker ==
    \A c \in Callers :
        Failed(c) =>
            LET m == outcome[c].message
                code == Env(c).code
                unclassified == IF op[c] = "chat_completion"
                                THEN "UNKNOWN_ERROR" ELSE "REQUEST_FAILED"
                marked == AuthMarker(m) \/ ThrottleMarker(m) \/ OutageMarker(m)
            IN  /\ ret[c].kind = "return"
                /\ (code = unclassified) <=> ~marked
                /\ marked =>
                       code = IF AuthMarker(m) THEN "INVALID_API_KEY"
                              ELSE IF ThrottleMarker(m) THEN "RATE_LIMIT"
                              ELSE "SERVICE_UNAVAILABLE"

\* C10: every invocation of chat_completion, chat_completion_sync and
\* validate_provider that has ended has ended by returning an envelope; no
\* exception has left the method, whether the provider call raised or
\* answered without choices or usage.
C10_NoExceptionEscapes ==
    \A c \in Callers :
        pc[c] = "done" =>
            /\ ret[c].kind = "return"
            /\ Env(c).success \in BOOLEAN
            /\ Env(c).timestamp \in Timestamps

C10_Witness ==
    \E c \in Callers :
        /\ pc[c] = "done"
        /\ op[c] = "validate_provider"
        /\ outcome[c].kind = "raise"
        /\ ret[c].kind = "return"
        /\ Env(c).success = FALSE

\* C11: validate_provider for an identifier that has no handle is never in
\* a provider call: it ends with a failure envelope and has issued no call,
\* whatever handles the other providers have.
C11_ValidateUnavailableFailsWithoutCall ==
    \A c \in Callers :
        (/\ pc[c] # "idle"
         /\ op[c] = "validate_provider"
         /\ req[c].provider # "auto"
         /\ HandleOf(req[c].provider) = None) =>
            /\ pc[c] = "done"
            /\ ret[c].kind = "return"
            /\ Env(c).success = FALSE
            /\ Env(c).data = NoData
            /\ sent[c] = <<>>

C11_Witness ==
    \E c \in Callers :
        /\ pc[c] = "done"
        /\ op[c] = "validate_provider"
        /\ req[c].provider = "openai"
        /\ OPENAI_API_KEY = NoStr
        /\ openai_client = None
        /\ openrouter_client # None
        /\ Env(c).success = FALSE
        /\ sent[c] = <<>>

\* C12: validate_provider resolves a handle for the exact identifier only;
\* with 'auto' it resolves nothing and issues no provider call.
C12_ValidateAutoNeverResolves ==
    \A c \in Callers :
        (pc[c] # "idle" /\ op[c] = "validate_provider") =>
            /\ req[c].provider = "auto" =>
                   (sent[c] = <<>> /\ local[c].provider_name = None)
            /\ sent[c] # <<>> => local[c].provider_name = req[c].provider

\* C13: once validate_provider has resolved a handle it has issued exactly
\* one provider call; it returns success with data true if the reply has
\* content, and in every other case (empty or absent content, or a raise) a
\* failure envelope with the code VALIDATION_FAILED.
C13_ValidateFailureIsValidationFailed ==
    \A c \in Callers :
        (/\ pc[c] = "done"
         /\ op[c] = "validate_provider"
         /\ outcome[c].kind # "none") =>
            /\ Len(sent[c]) = 1
            /\ ret[c].kind = "return"
            /\ IF /\ outcome[c].kind = "response"
                  /\ outcome[c].choices # <<>>
                  /\ outcome[c].choices[1].content.some
                  /\ outcome[c].choices[1].content.s # <<>>
               THEN /\ Env(c).success = TRUE
                    /\ Env(c).data = [kind |-> "bool", value |-> TRUE]
               ELSE /\ Env(c).success = FALSE
                    /\ Env(c).code = "VALIDATION_FAILED"

\* the handles and the active provider are those the startup computed
AsAtStartup ==
    LET s == _initialize_clients(OPENAI_API_KEY, OPENROUTER_API_KEY, ctor_fails)
    IN  /\ openai_client = s.openai_client
        /\ openrouter_client = s.openrouter_client
        /\ active_provider = s.active_provider

\* C14: any two get_status results of one service are identical, whatever
\* chat_completion, chat_completion_sync, validate_provider and get_status
\* calls ran around them, and none of these calls has changed the client
\* handles or active_provider since startup.
C14_StatusIdempotentStateReadOnly ==
    /\ \A i \in DOMAIN status_log : \A j \in DOMAIN status_log :
           status_log[i] = status_log[j]
    /\ \A i \in DOMAIN status_log : status_log[i] = get_status
    /\ AsAtStartup

C14_Witness ==
    /\ Len(status_log) = 2
    /\ active_provider = "openrouter"
    /\ \E c \in Callers :
           /\ pc[c] = "done"
           /\ op[c] = "chat_completion_sync"
           /\ outcome[c].kind = "raise"

\* C15: the active provider is openrouter if it has a handle, else openai if
\* it has one, else none; provider='auto' is served by it and by nothing
\* else; it is None exactly when available_providers is empty and is
\* otherwise one of available_providers.
C15_ActiveProviderPreference ==
    LET available == get_status.available_providers
    IN  /\ active_provider =
               IF openrouter_client # None THEN "openrouter"
               ELSE IF openai_client # None THEN "openai"
               ELSE None
        /\ (active_provider = None) <=> (available = <<>>)
        /\ active_provider # None =>
               \E i \in DOMAIN available : available[i] = active_provider
        /\ \A c \in Callers :
               (pc[c] # "idle" /\ req[c].provider = "auto") =>
                   IF active_provider = None
                   THEN sent[c] = <<>> /\ pc[c] = "done"
                   ELSE /\ Len(sent[c]) = 1
                        /\ sent[c][1].client = HandleOf(active_provider)
                        /\ local[c].provider_name = active_provider

C15_Witness ==
    \E c \in Callers :
        /\ openai_client # None
        /\ openrouter_client # None
        /\ active_provider = "openrouter"
        /\ pc[c] = "done"
        /\ op[c] \in CompletionOps
        /\ req[c].provider = "auto"
        /\ Env(c).success = TRUE
        /\ Env(c).provider = "openrouter"

\* the reply of caller c has content
HasReplyContent(c) ==
    /\ outcome[c].kind = "response"
    /\ outcome[c].choices # <<>>
    /\ outcome[c].choices[1].content.some
    /\ outcome[c].choices[1].content.s # <<>>

\* C16: with completion calls of several callers interleaved, each call is
\* issued with its own request's provider, model and temperature, each
\* envelope follows from the call's own request and its own provider reply
\* (equal requests with equal replies give equal envelopes, timestamp apart),
\* and the handles and active provider stay as at startup.
C16_ConcurrentCallsIndependent ==
    /\ AsAtStartup
    /\ \A c \in Callers :
           (pc[c] # "idle" /\ sent[c] # <<>>) =>
               /\ Len(sent[c]) = 1
               /\ sent[c][1].client = HandleOf(ExpectedProvider(req[c]))
               /\ sent[c][1].model = ExpectedModel(req[c])
               /\ sent[c][1].temperature = req[c].temperature
               /\ sent[c][1].max_tokens = req[c].max_tokens
    /\ \A c \in Callers :
           (pc[c] = "done" /\ outcome[c].kind # "none") =>
               /\ ret[c].kind = "return"
               /\ Env(c).provider = ExpectedProvider(req[c])
               /\ Env(c).success <=> HasReplyContent(c)
               /\ Env(c).success =>
                      /\ Env(c).model = ExpectedModel(req[c])
                      /\ IsTrimOf(Env(c).data.content,
                                  outcome[c].choices[1].content.s)
               /\ outcome[c].kind = "raise" => Env(c).code # None
    /\ \A c \in Callers : \A d \in Callers :
           (/\ pc[c] = "done" /\ pc[d] = "done"
            /\ op[c] = op[d] /\ req[c] = req[d] /\ outcome[c] = outcome[d]) =>
               WithoutTimestamp(Env(c)) = WithoutTimestamp(Env(d))

C16_Witness ==
    \E c \in Callers : \E d \in Callers :
        /\ c # d
        /\ pc[c] = "done" /\ pc[d] = "done"
        /\ local[c].provider_name = "openai"
        /\ local[d].provider_name = "openrouter"
        /\ local[c].selected_model # local[d].selected_model
        /\ req[c].temperature # req[d].temperature
        /\ Env(c).success = TRUE
        /\ Env(d).success = FALSE
        /\ Env(d).provider = "openrouter"

\* C17: every envelope the three methods return has exactly one variant
\* filled and a timestamp: a success has data and neither error nor code, a
\* failure has an error and no data.
C17_ExactlyOneVariant ==
    \A c \in Callers :
        (pc[c] = "done" /\ ret[c].kind = "return") =>
            /\ Env(c).timestamp # None
            /\ Env(c).success = TRUE =>
                   /\ Env(c).data # NoData
                   /\ Env(c).error = NoError
                   /\ Env(c).code = None
            /\ Env(c).success = FALSE =>
                   /\ Env(c).error.text # None
                   /\ Env(c).data = NoData

C17_Witness ==
    \E c \in Callers :
        /\ pc[c] = "done"
        /\ op[c] = "validate_provider"
        /\ Env(c).success = TRUE
        /\ Env(c).data = [kind |-> "bool", value |-> TRUE]
        /\ Env(c).timestamp = "t1"

\* the credential is present and is more than whitespace
NonBlank(key) == key.some /\ \E i \in 1..Len(key.s) : key.s[i] \notin Whitespace

\* C18: a provider has a handle only if its credential is present and not
\* blank and its client construction succeeded (and then it has one); a
\* construction failure of one provider leaves that provider without a
\* handle and leaves the other provider's handle and its selection as active
\* provider untouched.
C18_HandleOnlyForUsableCredential ==
    /\ openai_client # None <=>
           (NonBlank(OPENAI_API_KEY) /\ "openai" \notin ctor_fails)
    /\ openrouter_client # None <=>
           (NonBlank(OPENROUTER_API_KEY) /\ "openrouter" \notin ctor_fails)
    /\ ("openrouter" \in ctor_fails /\ openai_client # None) =>
           active_provider = "openai"
    /\ ("openai" \in ctor_fails /\ openrouter_client # None) =>
           active_provider = "openrouter"

C18_Witness ==
    \E c \in Callers :
        /\ NonBlank(OPENROUTER_API_KEY)
        /\ "openrouter" \in ctor_fails
        /\ openrouter_client = None
        /\ openai_client # None
        /\ active_provider = "openai"
        /\ pc[c] = "done"
        /\ req[c].provider = "auto"
        /\ Env(c).success = TRUE

\* C19: a completion call is issued, and its success envelope is labelled,
\* with the request's model verbatim when the request names one, in the
\* provider's catalog or not, and otherwise with the resolved provider's
\* default chat model: gpt-3.5-turbo for openai, microsoft/wizardlm-2-8x22b
\* for openrouter.  An empty model name counts as no model.
C19_ModelResolution ==
    \A c \in Callers :
        (pc[c] # "idle" /\ op[c] \in CompletionOps /\ sent[c] # <<>>) =>
            LET named == req[c].model # None /\ req[c].model # ""
                expected ==
                    IF named THEN req[c].model
                    ELSE IF local[c].provider_name = "openai" THEN "gpt-3.5-turbo"
                    ELSE "microsoft/wizardlm-2-8x22b"
            IN  /\ sent[c][1].model = expected
                /\ (pc[c] = "done" /\ Env(c).success) => Env(c).model = expected

C19_Witness ==
    \E c \in Callers :
        /\ pc[c] = "done"
        /\ op[c] \in CompletionOps
        /\ req[c].model = "gpt-4"
        /\ local[c].provider_name = "openrouter"
        /\ sent[c][1].model = "gpt-4"
        /\ Env(c).success = TRUE
        /\ Env(c).model = "gpt-4"

\* C20: a completion invocation that resolves a handle has issued exactly
\* one provider call, on the resolved provider's client, with the resolved
\* model, the caller's messages, temperature and max_tokens; this stays so
\* after any outcome: no retry and no call on another provider.
C20_ExactlyOneCall ==
    \A c \in Callers :
        (/\ pc[c] # "idle"
         /\ op[c] \in CompletionOps
         /\ HandleOf(ExpectedProvider(req[c])) # None) =>
            /\ Len(sent[c]) = 1
            /\ sent[c][1] = [client |-> HandleOf(ExpectedProvider(req[c])),
                             model |-> ExpectedModel(req[c]),
                             messages |-> req[c].messages,
                             temperature |-> req[c].temperature,
                             max_tokens |-> req[c].max_tokens]

C20_Witness ==
    \E c \in Callers :
        /\ pc[c] = "done"
        /\ op[c] = "chat_completion"
        /\ outcome[c].kind = "raise"
        /\ Env(c).code = "SERVICE_UNAVAILABLE"
        /\ Len(sent[c]) = 1
        /\ sent[c][1].client = OpenAIHandle
        /\ sent[c][1].max_tokens = 500

\* C21: every success envelope returned by a completion carries non-empty
\* content: a reply whose content is empty once trimmed (whitespace only, for
\* example) never gives a success envelope.
C21_SuccessContentNonEmpty ==
    \A c \in Callers :
        (/\ Answered(c)
         /\ ret[c].kind = "return"
         /\ Env(c).success = TRUE) =>
            /\ Env(c).data.kind = "dict"
            /\ Env(c).data.content # <<>>

\* C22: a job search leaves SKILLS_DATABASE unchanged: after any sequence of
\* POST /api/jobs requests every title has the skill list it had at import,
\* and GET /api/skills answers what it would have answered before the first
\* request.
C22_JobSearchLeavesSkillsDatabase ==
    /\ SKILLS_DATABASE = SkillsDatabaseAtImport
    /\ skills_ret.status = "success" =>
           skills_ret.skills = get_skills(SkillsDatabaseAtImport)

====
